---- MODULE Spec2Model ----
(***************************************************************************)
(* Model of the DiagnoML lab mock service (src/src/mocks/lab_mock.py).     *)
(*                                                                         *)
(* Numeric lab quantities are fixed-point integers in thousandths          *)
(* (5.2 is 5200), so that rounding to two decimals is an operation that    *)
(* changes a value and "a multiple of 0.01" is "a multiple of 10".         *)
(* Probabilities and uniform draws of random.random() are in thousandths   *)
(* too (0.3 is 300).  A Gaussian draw gauss(mu, sigma) is mu + sigma * z   *)
(* with the standard deviate z given in thousandths.                       *)
(*                                                                         *)
(* Every handler is a coroutine without an await, so it runs to completion *)
(* on the event loop: one action per handler.  The values the handler gets *)
(* from the random module are inputs of the action.                        *)
(***************************************************************************)
EXTENDS Integers, Sequences, FiniteSets

VARIABLES
  ranges,   \* the module-level dict LAB_REFERENCE_RANGES
  op,       \* the operation that ran last
  req,      \* its input
  resp,     \* its outcome: the HTTP response of a handler
  calls,    \* the generate_lab_value calls it made, in order
  handled   \* how many operations have run since the process started; it
            \* is the logical time that datetime.utcnow() reads

vars == <<ranges, op, req, resp, calls, handled>>

(* ------------------------------ bounds --------------------------------- *)

\* longest test_types list a request body carries
MaxLen == 2

\* operations run in one behaviour
MaxHandled == 2

(* --------------------------- static data ------------------------------- *)

\* LAB_REFERENCE_RANGES, an insertion-ordered dict: a sequence of entries
LAB_REFERENCE_RANGES ==
  << [test_type |-> "hba1c", unit |-> "%", min |-> 4000, max |-> 5600,
      normal_mean |-> 5200, normal_std |-> 300,
      abnormal_mean |-> 7500, abnormal_std |-> 1500],
     [test_type |-> "cholesterol_total", unit |-> "mg/dL", min |-> 0, max |-> 200000,
      normal_mean |-> 180000, normal_std |-> 20000,
      abnormal_mean |-> 260000, abnormal_std |-> 40000],
     [test_type |-> "cholesterol_ldl", unit |-> "mg/dL", min |-> 0, max |-> 100000,
      normal_mean |-> 90000, normal_std |-> 15000,
      abnormal_mean |-> 150000, abnormal_std |-> 30000],
     [test_type |-> "cholesterol_hdl", unit |-> "mg/dL", min |-> 40000, max |-> 60000,
      normal_mean |-> 55000, normal_std |-> 10000,
      abnormal_mean |-> 35000, abnormal_std |-> 8000],
     [test_type |-> "crp", unit |-> "mg/L", min |-> 0, max |-> 3000,
      normal_mean |-> 1000, normal_std |-> 500,
      abnormal_mean |-> 8000, abnormal_std |-> 3000],
     [test_type |-> "glucose_fasting", unit |-> "mg/dL", min |-> 70000, max |-> 100000,
      normal_mean |-> 90000, normal_std |-> 8000,
      abnormal_mean |-> 140000, abnormal_std |-> 30000],
     [test_type |-> "triglycerides", unit |-> "mg/dL", min |-> 0, max |-> 150000,
      normal_mean |-> 100000, normal_std |-> 25000,
      abnormal_mean |-> 220000, abnormal_std |-> 50000] >>

\* list(d.keys())
Keys(d) == [i \in 1..Len(d) |-> d[i].test_type]

\* key in d
Has(d, key) == \E i \in 1..Len(d) : d[i].test_type = key

\* d[key]
Lookup(d, key) == d[CHOOSE i \in 1..Len(d) : d[i].test_type = key]

\* default of LabRequest.test_types
DefaultTestTypes_3 == <<"hba1c", "cholesterol_total", "crp">>

DefaultTestTypes == <<"hba1c", "cholesterol", "crp">>

\* default of generate_lab_value's abnormal_probability, 0.3
DefaultAbnormalProbability == 300

\* bounds of random.randint for the lab id
RandintLo == 100000

RandintHi == 999999

(* ------------------------- random inputs ------------------------------- *)

\* values of random.random(), in [0, 1)
URandom == <<0, 300, 999>>

\* the random streams a handler may observe
Streams == {1, 2}

\* standard deviates behind random.gauss
ZGauss == <<-20000, 1005, 2500>>

\* values of random.uniform(0, 100)
UniformDraws == {0, 4, 5, 12345, 99995, 100000}

\* the i-th pair (random.random(), random.gauss deviate) a handler gets from
\* random stream s
Stream(s, i) ==
  [u |-> URandom[((s + i) % Len(URandom)) + 1],
   z |-> ZGauss[((3 * s + i) % Len(ZGauss)) + 1]]

randint_from0(s) == IF s = 1 THEN 0 ELSE RandintHi

\* the value of random.randint(100000, 999999) a handler gets from stream s
randint(s) == IF s = 1 THEN RandintLo ELSE RandintHi

(* ------------------------- numeric helpers ----------------------------- *)

\* round(v, 2): to the nearest hundredth, a tie to the even hundredth
round2(v) ==
  LET q == v \div 10
      r == v % 10
  IN  IF r < 5 THEN 10 * q
      ELSE IF r > 5 THEN 10 * (q + 1)
      ELSE IF q % 2 = 0 THEN 10 * q ELSE 10 * (q + 1)

max0_none(v) == v

\* max(0, v)
max0(v) == IF 0 > v THEN 0 ELSE v

\* random.gauss(mu, sigma) for the standard deviate z
gauss(mu, sigma, z) == mu + ((sigma * z) \div 1000)

RECURSIVE Digits(_)
\* str(n) for an int n >= 0, as a sequence of characters
Digits(n) ==
  IF n < 10 THEN << <<"0","1","2","3","4","5","6","7","8","9">>[n + 1] >>
  ELSE Digits(n \div 10) \o << <<"0","1","2","3","4","5","6","7","8","9">>[(n % 10) + 1] >>

\* f"LAB-{n}"
LabId(n) == <<"L", "A", "B", "-">> \o Digits(n)

(* ------------------------ generate_lab_value --------------------------- *)

fallback_value_wide(w) == round2(10 * w)

\* line 130: round(random.uniform(0, 100), 2) for the draw w
fallback_value(w) == round2(w)

is_abnormal_le(u, abnormal_probability) == u <= abnormal_probability

\* line 133: random.random() < abnormal_probability for the draw u
is_abnormal(u, abnormal_probability) == u < abnormal_probability

\* The call returns .value; the other fields record what the call did:
\* its arguments, the branch taken, the draws consumed and the
\* distribution sampled (-1 where the call did not get that far).
generate_lab_value(d, test_type, abnormal_probability, u, z, w) ==
  IF ~Has(d, test_type)
  THEN [test_type |-> test_type, abnormal_probability |-> abnormal_probability,
        branch |-> "fallback", u |-> -1, z |-> 0, mean |-> -1, std |-> -1, raw |-> w,
        value |-> fallback_value(w)]
  ELSE LET config == Lookup(d, test_type)
           abnormal == is_abnormal(u, abnormal_probability)
           mean == IF abnormal THEN config.abnormal_mean ELSE config.normal_mean
           std == IF abnormal THEN config.abnormal_std ELSE config.normal_std
           value == gauss(mean, std, z)
       IN  [test_type |-> test_type, abnormal_probability |-> abnormal_probability,
            branch |-> IF abnormal THEN "abnormal" ELSE "normal",
            u |-> u, z |-> z, mean |-> mean, std |-> std, raw |-> value,
            value |-> round2(max0(value))]

(* ----------------------------- models ---------------------------------- *)

\* LabResult(...); now is the value of datetime.utcnow()
LabResult(test_type, value, config, now) ==
  [test_type |-> test_type, value |-> value, unit |-> config.unit,
   reference_min |-> config.min, reference_max |-> config.max,
   timestamp |-> now]

\* LabRequest parsed from a body: an omitted test_types takes the default
LabRequest(body) ==
  [patient_id |-> body.patient_id,
   test_types |-> IF body.has_test_types THEN body.test_types ELSE DefaultTestTypes]

NoRequest ==
  [patient_id |-> "", has_test_types |-> FALSE, test_types |-> <<>>,
   test_type |-> "", abnormal_probability |-> 0]

NoResponse ==
  [status |-> 0, patient_id |-> "", results |-> <<>>, lab_id |-> <<>>,
   processed_at |-> 0, detail |-> <<>>, body |-> <<>>]

(* ----------------------------- inputs ---------------------------------- *)

PatientIds == {"PID-TEST123456", ""}

\* test type names a request body may carry: table keys and others
RequestTypes == {"hba1c", "crp", "not_a_real_test"}

TestTypeLists == UNION {[1..n -> RequestTypes] : n \in 0..MaxLen}

\* arguments of a direct call of generate_lab_value
DirectTypes == {LAB_REFERENCE_RANGES[i].test_type : i \in 1..Len(LAB_REFERENCE_RANGES)}
               \cup {"cholesterol", "not_a_real_test"}

Probabilities == {0, DefaultAbnormalProbability, 1000}

Range(f) == {f[i] : i \in DOMAIN f}

\* JSON bodies of POST /api/v1/lab/request, with test_types present or omitted
RequestBodies ==
  {[patient_id |-> pid, has_test_types |-> TRUE, test_types |-> tt,
    test_type |-> "", abnormal_probability |-> 0] :
     pid \in PatientIds, tt \in TestTypeLists}
  \cup
  {[patient_id |-> pid, has_test_types |-> FALSE, test_types |-> <<>>,
    test_type |-> "", abnormal_probability |-> 0] : pid \in PatientIds}

(* ----------------------------- handlers -------------------------------- *)

RECURSIVE request_loop_keep(_, _, _, _, _)
request_loop_keep(d, test_types, s, k, now) ==
  IF test_types = <<>> THEN <<>>
  ELSE LET test_type == Head(test_types)
           call == generate_lab_value(d, test_type, DefaultAbnormalProbability,
                                      Stream(s, k).u, Stream(s, k).z, 0)
           config == IF Has(d, test_type) THEN Lookup(d, test_type)
                     ELSE [unit |-> "", min |-> 0, max |-> 0]
       IN  << [call |-> call, result |-> LabResult(test_type, call.value, config, now)] >>
           \o request_loop_keep(d, Tail(test_types), s, k + 1, now)

RECURSIVE request_loop_front(_, _, _, _, _)
request_loop_front(d, test_types, s, k, now) ==
  IF test_types = <<>> THEN <<>>
  ELSE LET test_type == Head(test_types)
       IN  IF ~Has(d, test_type)
           THEN request_loop_front(d, Tail(test_types), s, k, now)
           ELSE LET config == Lookup(d, test_type)
                    call == generate_lab_value(d, test_type, DefaultAbnormalProbability,
                                               Stream(s, k).u, Stream(s, k).z, 0)
                IN  request_loop_front(d, Tail(test_types), s, k + 1, now)
                    \o << [call |-> call,
                           result |-> LabResult(test_type, call.value, config, now)] >>

RECURSIVE request_loop(_, _, _, _, _)
\* lines 177-192: the loop of request_lab_results over request.test_types;
\* k counts the generate_lab_value calls made so far in stream s
request_loop(d, test_types, s, k, now) ==
  IF test_types = <<>> THEN <<>>
  ELSE LET test_type == Head(test_types)
       IN  IF ~Has(d, test_type)
           THEN request_loop(d, Tail(test_types), s, k, now)
           ELSE LET config == Lookup(d, test_type)
                    call == generate_lab_value(d, test_type, DefaultAbnormalProbability,
                                               Stream(s, k).u, Stream(s, k).z, 0)
                IN  << [call |-> call,
                        result |-> LabResult(test_type, call.value, config, now)] >>
                    \o request_loop(d, Tail(test_types), s, k + 1, now)

panel_loop_default(d, s, now) == request_loop(d, DefaultTestTypes, s, 1, now)

\* lines 218-229: the loop of get_lab_results over LAB_REFERENCE_RANGES.items()
panel_loop(d, s, now) ==
  [i \in 1..Len(d) |->
     LET call == generate_lab_value(d, d[i].test_type, DefaultAbnormalProbability,
                                    Stream(s, i).u, Stream(s, i).z, 0)
     IN  [call |-> call, result |-> LabResult(d[i].test_type, call.value, d[i], now)]]

Results(rs) == [i \in 1..Len(rs) |-> rs[i].result]

Calls(rs) == [i \in 1..Len(rs) |-> rs[i].call]

\* lines 194-198: the HTTPException of request_lab_results
NoValidTestTypes(d) ==
  [status |-> 400, patient_id |-> "", results |-> <<>>, lab_id |-> <<>>,
   processed_at |-> 0,
   detail |-> <<"No valid test types provided. Available: ">> \o Keys(d),
   body |-> <<>>]

\* LabResponse(...), sent with status 200
LabResponse(patient_id, results, lab_id, now) ==
  [status |-> 200, patient_id |-> patient_id, results |-> results,
   lab_id |-> lab_id, processed_at |-> now, detail |-> <<>>, body |-> <<>>]

request_response_noraise(d, request, rs, n, now) ==
  LabResponse(request.patient_id, Results(rs), LabId(n), now)

\* lines 194-205: the outcome of request_lab_results after its loop
request_response(d, request, rs, n, now) ==
  IF rs = <<>> THEN NoValidTestTypes(d)
  ELSE LabResponse(request.patient_id, Results(rs), LabId(n), now)

request_lab_results_pop ==
  /\ handled < MaxHandled
  /\ handled' = handled + 1
  /\ \E body \in RequestBodies, s \in Streams :
       LET request == LabRequest(body)
           rs == request_loop(ranges, request.test_types, s, 1, handled')
       IN  /\ op' = "request_lab_results"
           /\ req' = body
           /\ resp' = request_response(ranges, request, rs, randint(s), handled')
           /\ calls' = Calls(rs)
           /\ ranges' = SelectSeq(ranges,
                          LAMBDA e : e.test_type \notin Range(request.test_types))

\* POST /api/v1/lab/request
request_lab_results ==
  /\ handled < MaxHandled
  /\ handled' = handled + 1
  /\ \E body \in RequestBodies, s \in Streams :
       LET request == LabRequest(body)
           rs == request_loop(ranges, request.test_types, s, 1, handled')
       IN  /\ op' = "request_lab_results"
           /\ req' = body
           /\ resp' = request_response(ranges, request, rs, randint(s), handled')
           /\ calls' = Calls(rs)
           /\ UNCHANGED ranges

\* GET /api/v1/lab/results/{patient_id}
get_lab_results ==
  /\ handled < MaxHandled
  /\ handled' = handled + 1
  /\ \E pid \in PatientIds, s \in Streams :
       LET rs == panel_loop(ranges, s, handled')
       IN  /\ op' = "get_lab_results"
           /\ req' = [NoRequest EXCEPT !.patient_id = pid]
           /\ resp' = LabResponse(pid, Results(rs), LabId(randint(s)), handled')
           /\ calls' = Calls(rs)
           /\ UNCHANGED ranges

\* GET /api/v1/lab/tests
list_available_tests ==
  /\ handled < MaxHandled
  /\ handled' = handled + 1
  /\ op' = "list_available_tests"
  /\ req' = NoRequest
  /\ resp' = [NoResponse EXCEPT
                !.status = 200,
                !.body = [i \in 1..Len(ranges) |->
                            [test_type |-> ranges[i].test_type,
                             unit |-> ranges[i].unit,
                             min |-> ranges[i].min, max |-> ranges[i].max]]]
  /\ calls' = <<>>
  /\ UNCHANGED ranges

\* GET /health
health_check ==
  /\ handled < MaxHandled
  /\ handled' = handled + 1
  /\ op' = "health_check"
  /\ req' = NoRequest
  /\ resp' = [NoResponse EXCEPT !.status = 200, !.body = <<"healthy", "lab-mock">>]
  /\ calls' = <<>>
  /\ UNCHANGED ranges

\* GET /
root ==
  /\ handled < MaxHandled
  /\ handled' = handled + 1
  /\ op' = "root"
  /\ req' = NoRequest
  /\ resp' = [NoResponse EXCEPT
                !.status = 200,
                !.body = <<"DiagnoML Lab Mock Service", "1.0.0">> \o Keys(ranges)]
  /\ calls' = <<>>
  /\ UNCHANGED ranges

\* a direct call generate_lab_value(test_type, abnormal_probability); the
\* call draws u and z only for a known test type, and w only for an unknown one
call_generate_lab_value ==
  /\ handled < MaxHandled
  /\ handled' = handled + 1
  /\ \E test_type \in DirectTypes, p \in Probabilities :
       /\ \E draw \in IF Has(ranges, test_type)
                      THEN {[u |-> u, z |-> z, w |-> 0] :
                              u \in Range(URandom), z \in Range(ZGauss)}
                      ELSE {[u |-> 0, z |-> 0, w |-> w] : w \in UniformDraws} :
            calls' = << generate_lab_value(ranges, test_type, p, draw.u, draw.z, draw.w) >>
       /\ op' = "generate_lab_value"
       /\ req' = [NoRequest EXCEPT !.test_type = test_type,
                                   !.abnormal_probability = p]
       /\ resp' = NoResponse
       /\ UNCHANGED ranges

Init ==
  /\ ranges = LAB_REFERENCE_RANGES
  /\ op = "init"
  /\ req = NoRequest
  /\ resp = NoResponse
  /\ calls = <<>>
  /\ handled = 0

Next ==
  \/ request_lab_results
  \/ get_lab_results
  \/ list_available_tests
  \/ health_check
  \/ root
  \/ call_generate_lab_value

Spec == Init /\ [][Next]_vars

TypeOK ==
  /\ op \in {"init", "request_lab_results", "get_lab_results",
             "list_available_tests", "health_check", "root", "generate_lab_value"}
  /\ resp.status \in {0, 200, 400}
  /\ handled \in 0..MaxHandled

(* ------------------------------ claims --------------------------------- *)

\* the handlers of the service
Handlers ==
  {"request_lab_results", "get_lab_results", "list_available_tests",
   "health_check", "root"}

\* the seven valid test type names, in table order
SevenKeys ==
  <<"hba1c", "cholesterol_total", "cholesterol_ldl", "cholesterol_hdl",
    "crp", "glucose_fasting", "triglycerides">>

IsKey(t) == \E i \in 1..Len(SevenKeys) : SevenKeys[i] = t

\* the test types the last request body asks for
Requested ==
  IF req.has_test_types THEN req.test_types ELSE <<"hba1c", "cholesterol", "crp">>

ResultTypes == [i \in 1..Len(resp.results) |-> resp.results[i].test_type]

IsLabResponse == op \in {"request_lab_results", "get_lab_results"} /\ resp.status = 200

C2_ResultsFromTable ==
  IsLabResponse =>
    \A i \in 1..Len(resp.results) :
      LET r == resp.results[i]
      IN  /\ IsKey(r.test_type)
          /\ \E j \in 1..Len(LAB_REFERENCE_RANGES) :
               /\ LAB_REFERENCE_RANGES[j].test_type = r.test_type
               /\ LAB_REFERENCE_RANGES[j].unit = r.unit
               /\ LAB_REFERENCE_RANGES[j].min = r.reference_min
               /\ LAB_REFERENCE_RANGES[j].max = r.reference_max

C2_Witness ==
  /\ op = "request_lab_results"
  /\ req.test_types = <<"not_a_real_test", "crp">>
  /\ resp.status = 200
  /\ Len(resp.results) = 1

\* C3: a successful request returns one LabResult per requested entry that is
\* a table key: the result test types are the requested list with the unknown
\* entries removed, in request order, repeats kept; a request for ["hba1c"]
\* returns one result: hba1c, "%", 4.0, 5.6.
C3_OnePerValidEntryInOrder ==
  (op = "request_lab_results" /\ resp.status = 200) =>
    /\ ResultTypes = SelectSeq(Requested, IsKey)
    /\ Requested = <<"hba1c">> =>
         /\ Len(resp.results) = 1
         /\ resp.results[1].test_type = "hba1c"
         /\ resp.results[1].unit = "%"
         /\ resp.results[1].reference_min = 4000
         /\ resp.results[1].reference_max = 5600

C3_Witness ==
  /\ op = "request_lab_results"
  /\ req.test_types = <<"crp", "crp">>
  /\ ResultTypes = <<"crp", "crp">>

\* C4: GET /api/v1/lab/results/{patient_id} always succeeds and returns seven
\* results, one per table key, each key once, in table order, whatever ran
\* before it.
C4_FullPanel ==
  op = "get_lab_results" =>
    /\ resp.status = 200
    /\ Len(resp.results) = 7
    /\ ResultTypes = SevenKeys

C4_Witness ==
  /\ op = "get_lab_results"
  /\ handled = 2
  /\ req.patient_id = ""
  /\ Len(resp.results) = 7

\* C5: for a supported test type and any abnormal_probability in [0, 1] the
\* value generate_lab_value returns is >= 0 and a multiple of 0.01, also for a
\* negative Gaussian draw; so is every LabResult value of every response.
C5_ValueNonNegativeTwoDecimals ==
  /\ \A i \in 1..Len(calls) :
       IsKey(calls[i].test_type) =>
         calls[i].value >= 0 /\ calls[i].value % 10 = 0
  /\ \A i \in 1..Len(resp.results) :
       resp.results[i].value >= 0 /\ resp.results[i].value % 10 = 0

C5_Witness ==
  /\ op = "generate_lab_value"
  /\ IsKey(calls[1].test_type)
  /\ calls[1].raw < 0
  /\ calls[1].value = 0

\* C6: generate_lab_value called with a test type that is not a table key does
\* not fail: it returns a value in [0, 100] with two decimals, for any
\* abnormal_probability, taking neither the abnormal nor the normal branch.
C6_UnknownTypeFallback ==
  \A i \in 1..Len(calls) :
    ~IsKey(calls[i].test_type) =>
      /\ calls[i].branch = "fallback"
      /\ calls[i].value \in 0..100000
      /\ calls[i].value % 10 = 0

C6_Witness ==
  /\ op = "generate_lab_value"
  /\ req.test_type = "not_a_real_test"
  /\ req.abnormal_probability = 1000
  /\ calls[1].raw = 99995
  /\ calls[1].value = 100000

DigitValue(c) ==
  CHOOSE k \in 0..9 : <<"0", "1", "2", "3", "4", "5", "6", "7", "8", "9">>[k + 1] = c

IsDigit(c) == c \in {"0", "1", "2", "3", "4", "5", "6", "7", "8", "9"}

\* C8: every successful LabResponse has a lab_id "LAB-" followed by an integer
\* in [100000, 999999], exactly six digits without a leading zero, and echoes
\* the caller's patient_id.
C8_LabIdAndPatientId ==
  IsLabResponse =>
    /\ resp.patient_id = req.patient_id
    /\ Len(resp.lab_id) = 10
    /\ SubSeq(resp.lab_id, 1, 4) = <<"L", "A", "B", "-">>
    /\ \A k \in 5..10 : IsDigit(resp.lab_id[k])
    /\ resp.lab_id[5] # "0"
    /\ LET d == [k \in 5..10 |-> DigitValue(resp.lab_id[k])]
           n == 100000 * d[5] + 10000 * d[6] + 1000 * d[7] + 100 * d[8]
                + 10 * d[9] + d[10]
       IN  n \in 100000..999999

C8_Witness ==
  /\ op = "get_lab_results"
  /\ resp.status = 200
  /\ resp.patient_id = "PID-TEST123456"
  /\ resp.lab_id = <<"L", "A", "B", "-", "1", "0", "0", "0", "0", "0">>

\* C9: for a supported test type generate_lab_value draws one u in [0, 1) and
\* samples the abnormal distribution exactly when u < abnormal_probability,
\* else the normal one; probability 0 never selects the abnormal distribution
\* and probability 1 always does; the handlers always pass the default 0.3.
C9_AbnormalIffBelowProbability ==
  /\ \A i \in 1..Len(calls) :
       IsKey(calls[i].test_type) =>
         LET c == calls[i]
             config == LAB_REFERENCE_RANGES[
                         CHOOSE j \in 1..Len(LAB_REFERENCE_RANGES) :
                           LAB_REFERENCE_RANGES[j].test_type = c.test_type]
         IN  /\ c.u \in 0..999
             /\ c.branch \in {"abnormal", "normal"}
             /\ c.branch = "abnormal" <=> c.u < c.abnormal_probability
             /\ c.branch = "abnormal" =>
                  c.mean = config.abnormal_mean /\ c.std = config.abnormal_std
             /\ c.branch = "normal" =>
                  c.mean = config.normal_mean /\ c.std = config.normal_std
             /\ c.abnormal_probability = 0 => c.branch = "normal"
             /\ c.abnormal_probability = 1000 => c.branch = "abnormal"
  /\ op \in Handlers => \A i \in 1..Len(calls) : calls[i].abnormal_probability = 300

C9_Witness ==
  /\ op = "generate_lab_value"
  /\ calls[1].test_type = "cholesterol_hdl"
  /\ calls[1].abnormal_probability = 300
  /\ calls[1].u = 300
  /\ calls[1].branch = "normal"
  /\ calls[1].mean = 55000

\* C10: a request that omits test_types uses ["hba1c", "cholesterol", "crp"];
\* "cholesterol" is no table key, so the request succeeds with exactly two
\* results, hba1c then crp, and no cholesterol result of any kind.
C10_DefaultListGivesTwoResults ==
  (op = "request_lab_results" /\ ~req.has_test_types) =>
    /\ resp.status = 200
    /\ ResultTypes = <<"hba1c", "crp">>
    /\ ~IsKey("cholesterol")

C10_Witness ==
  /\ op = "request_lab_results"
  /\ ~req.has_test_types
  /\ Len(resp.results) = 2
  /\ resp.results[2].unit = "mg/L"

====
